---- MODULE Spec2Model ----
(***************************************************************************)
(* Round-based action scheduling and world-state evolution engine of the   *)
(* Actors-Actions simulation backend.                                      *)
(*                                                                         *)
(* The model follows one Simulation document of the MongoDB collection     *)
(* (storage.py), the HTTP handlers schedule_action and process_round       *)
(* (api.py), the background worker _process_round_background (api.py) and  *)
(* WorldEngine.process_round (world_engine.py).  Each storage call of the  *)
(* worker is one step, so the states between two storage calls are states  *)
(* of the model.  The two LLM providers are nondeterministic inputs.       *)
(***************************************************************************)
EXTENDS Integers, Sequences, FiniteSets, TLC

VARIABLES
    status,            \* simulation["status"]
    current_round,     \* simulation["current_round"]
    rounds,            \* simulation["rounds"], the public transcript
    actor_states,      \* simulation["actor_states"]: round -> actor_id -> state
    action_schedule,   \* simulation["action_schedule"]: round -> list of actions
    active_actions,    \* simulation["active_actions"]
    pending_messages,  \* simulation["pending_messages"]
    workers,           \* the executor threads running _process_round_background
    sent_log,          \* history: every message handed to add_pending_message
    scenario,          \* the inputs of this run: what callers and providers may send
    actors,            \* simulation["actors"], the roster
    generation,        \* the executor thread running _generate_actors_background
    enrichers          \* the executor threads running _run_enrichment

\* the roster and the tasks that build it
lifecycle == <<actors, generation, enrichers>>

vars == <<status, current_round, rounds, actor_states, action_schedule,
          active_actions, pending_messages, workers, sent_log, scenario, lifecycle>>

----------------------------------------------------------------------------
(* Bounds of the exploration *)

\* process-round requests are accepted while current_round < MaxRound
MaxRound == 3
\* the same, in the runs whose decisions carry messages and in the runs whose
\* World Updates name an actor that is not in the roster
MaxMessageRound == 2
\* the same, in the runs that follow a simulation from its creation
MaxLifecycleRound == 2
\* the same, in the runs whose requests arrive while a round is processed
MaxConcurrentRound == 1
\* ScheduledActions and PendingMessages the providers and callers create in
\* one run, taken together
MaxProposals == 2
\* PendingMessages among them
MaxMessages == 1

(* Program constants *)

\* world_engine.py: MAX_RETRIES = 3
MAX_RETRIES == 3

----------------------------------------------------------------------------
(* Inputs *)

\* simulation["actors"]: the roster, in list order, by actor_id
Actors == <<"a1", "a2">>

ActorIds == {Actors[i] : i \in 1..Len(Actors)}

\* actor["identifier"], the display name a message names its recipient by
Identifier(a) == IF a = "a1" THEN "Alice" ELSE "Bob"

\* a recipient name that resolves to no actor of the roster
UnknownIdentifier == "Nobody"

\* an actor_id of provider output that is the id of no actor of the roster
UnknownActorId == "a9"

\* the action texts a decision may carry
ActionTexts == {"x"}

\* A run draws its inputs from one of these families, so that each feature of
\* the engine is explored in depth without multiplying the others:
\*   offsets    execute_round of a decision or request, relative to the round
\*   durations  the durations a decision or request may carry
\*   requests   whether the caller posts schedule-action requests
\*   messages   whether decisions carry messages
\*   outcomes   the outcome values the World Update Provider reports
\*   results    "complete": the update reports one result per actor with a due
\*              action; "partial": for some of these actors only; "any": for
\*              any actors of the roster, with a due action or not; "unknown":
\*              one per actor with a due action and possibly one for an
\*              actor_id that is not in the roster
\*   updates    "complete": the update holds actor_updates for every actor of
\*              the roster; "partial": for some of them only; "extra": for
\*              every actor of the roster and possibly for an unknown actor_id
\*   rounds     the number of rounds the caller asks for
Scenarios ==
    {[name |-> "results", outcomes |-> {"SUCCESS", "FAILURE"}, offsets |-> {0}, durations |-> {1}, requests |-> FALSE,
      messages |-> FALSE, results |-> "partial", updates |-> "complete", rounds |-> MaxRound],
     [name |-> "unowned", outcomes |-> {"SUCCESS"}, offsets |-> {0}, durations |-> {1}, requests |-> FALSE,
      messages |-> FALSE, results |-> "any", updates |-> "complete", rounds |-> MaxRound],
     [name |-> "unknown", outcomes |-> {"SUCCESS"}, offsets |-> {0}, durations |-> {1}, requests |-> FALSE,
      messages |-> FALSE, results |-> "unknown", updates |-> "extra", rounds |-> MaxMessageRound],
     [name |-> "updates", outcomes |-> {"SUCCESS"}, offsets |-> {0}, durations |-> {1}, requests |-> FALSE,
      messages |-> FALSE, results |-> "complete", updates |-> "partial", rounds |-> MaxRound],
     [name |-> "multi_round", outcomes |-> {"SUCCESS"}, offsets |-> {0}, durations |-> {1, 2}, requests |-> FALSE,
      messages |-> FALSE, results |-> "complete", updates |-> "complete", rounds |-> MaxRound],
     [name |-> "messages", outcomes |-> {"SUCCESS"}, offsets |-> {0}, durations |-> {1}, requests |-> FALSE,
      messages |-> TRUE, results |-> "complete", updates |-> "partial", rounds |-> MaxMessageRound],
     [name |-> "scheduling", outcomes |-> {"SUCCESS"}, offsets |-> {-1, 0, 1}, durations |-> {1}, requests |-> TRUE,
      messages |-> FALSE, results |-> "complete", updates |-> "complete", rounds |-> MaxRound]}

Durations == scenario.durations

Outcomes == scenario.outcomes

ExecOffsets == scenario.offsets

----------------------------------------------------------------------------
(* Sequence helpers *)

Range(s) == {s[i] : i \in 1..Len(s)}

IsPrefix(s, t) == Len(s) <= Len(t) /\ \A i \in 1..Len(s) : s[i] = t[i]

\* dict.get(key, default)
Get(f, k, default) == IF k \in DOMAIN f THEN f[k] ELSE default

\* "$set" of one key of an embedded document
SetKey(f, k, v) == [x \in DOMAIN f \cup {k} |-> IF x = k THEN v ELSE f[x]]

\* the smallest element of a non-empty set of integers
Min(S) == CHOOSE x \in S : \A y \in S : x <= y

\* position of an actor in the roster
ActorIndex(a) == CHOOSE i \in 1..Len(Actors) : Actors[i] = a

----------------------------------------------------------------------------
(* storage.py: the operations on the Simulation document *)

\* get_scheduled_actions: action_schedule.get(str(round_number), [])
get_scheduled_actions(sched, round_number) == Get(sched, round_number, <<>>)

\* schedule_action: "$push" onto the bucket of the action's scheduled_round
schedule_action(sched, scheduled_action) ==
    SetKey(sched, scheduled_action.scheduled_round,
           Append(get_scheduled_actions(sched, scheduled_action.scheduled_round),
                  scheduled_action))

\* update_scheduled_action_status: the first action of actor_id in the bucket
\* gets the status and the outcome; the bucket is written back in any case
update_scheduled_action_status(sched, round_number, actor_id, new_status, outcome) ==
    LET actions == get_scheduled_actions(sched, round_number)
        hits == {i \in 1..Len(actions) : actions[i].actor_id = actor_id}
    IN  SetKey(sched, round_number,
               IF hits = {} THEN actions
               ELSE [actions EXCEPT ![Min(hits)] =
                        [@ EXCEPT !.status = new_status, !.outcome = outcome]])

\* the loop of update_scheduled_action_status on the list it has read: the
\* first action of actor_id gets the status and the outcome
mark_first_action(actions, actor_id, new_status, outcome) ==
    LET hits == {i \in 1..Len(actions) : actions[i].actor_id = actor_id}
    IN  IF hits = {} THEN actions
        ELSE [actions EXCEPT ![Min(hits)] =
                 [@ EXCEPT !.status = new_status, !.outcome = outcome]]

\* get_messages_for_round: the messages whose deliver_round is round_number
get_messages_for_round(msgs, round_number) ==
    SelectSeq(msgs, LAMBDA m : m.deliver_round = round_number)

\* clear_delivered_messages: keep only the messages not for round_number
clear_delivered_messages(msgs, round_number) ==
    SelectSeq(msgs, LAMBDA m : m.deliver_round # round_number)

\* add_pending_message: "$push" onto pending_messages
add_pending_message(msgs, message) == Append(msgs, message)

\* add_active_action: "$push" onto active_actions
add_active_action(active, active_action) == Append(active, active_action)

\* complete_active_action: "$pull" every entry matching (actor_id, started_round)
complete_active_action(active, actor_id, started_round) ==
    SelectSeq(active, LAMBDA x : ~(x.actor_id = actor_id /\ x.started_round = started_round))

\* add_round with an increment of two
add_round_counter_twice(counter) == counter + 2

\* add_round: the "$inc" of current_round
add_round_counter(counter) == counter + 1

\* add_round: the "$push" onto rounds
add_round_rounds(rs, round_data) == Append(rs, round_data)

\* add_round: the "$set" of actor_states.<round_number>
add_round_actor_states(states, round_data, new_states) ==
    SetKey(states, round_data.round_number, new_states)

----------------------------------------------------------------------------
(* world_engine.py: the pure parts of WorldEngine *)

\* _convert_to_storage_format: the public round_data
convert_round_data(world_update, round_number) ==
    [round_number |-> round_number,
     action_results |-> world_update.action_results,
     continue_simulation |-> world_update.continue_simulation]

\* _convert_to_storage_format: next(r for r in action_results if r.actor_id == actor_id)
first_result(world_update, actor_id) ==
    LET rs == world_update.action_results
        hits == {i \in 1..Len(rs) : rs[i].actor_id = actor_id}
    IN  IF hits = {} THEN "NONE" ELSE rs[Min(hits)].outcome

\* _convert_to_storage_format: the action_item built for one scheduled action
action_item(scheduled, world_update, round_number) ==
    [action |-> scheduled.action,
     scheduled_round |-> round_number,
     duration |-> scheduled.duration,
     status |-> "completed",
     outcome |-> IF first_result(world_update, scheduled.actor_id) = "NONE"
                 THEN "UNKNOWN"
                 ELSE first_result(world_update, scheduled.actor_id)]

\* _convert_to_storage_format: action_items_by_actor, a dict that the loop over
\* scheduled_actions overwrites, so the last action of an actor stays
action_items_by_actor(scheduled_actions, world_update, round_number) ==
    LET owners == {scheduled_actions[i].actor_id : i \in 1..Len(scheduled_actions)}
        last(a) == CHOOSE i \in 1..Len(scheduled_actions) :
                      /\ scheduled_actions[i].actor_id = a
                      /\ \A j \in 1..Len(scheduled_actions) :
                            scheduled_actions[j].actor_id = a => j <= i
    IN  [a \in owners |-> action_item(scheduled_actions[last(a)], world_update, round_number)]

\* _convert_to_storage_format: the messages of pending_messages addressed to actor_id
actor_messages(msgs, actor_id) ==
    LET mine == SelectSeq(msgs, LAMBDA m : m.to_actor_id = actor_id)
    IN  [i \in 1..Len(mine) |->
            [from_actor_id |-> mine[i].from_actor_id, sent_round |-> mine[i].sent_round]]

\* _convert_to_storage_format: one ActorRoundState per actor of actor_updates
convert_actor_states(world_update, round_number, scheduled_actions, prev_actor_states, msgs) ==
    LET items == action_items_by_actor(scheduled_actions, world_update, round_number)
        prev_actions(a) ==
            IF a \in DOMAIN prev_actor_states THEN prev_actor_states[a].my_actions ELSE <<>>
    IN  [a \in world_update.actor_updates |->
            [my_actions |-> IF a \in DOMAIN items
                            THEN Append(prev_actions(a), items[a])
                            ELSE prev_actions(a),
             messages_received |-> actor_messages(msgs, a)]]

\* process_round and _generate_empty_round: the actor states of the previous
\* round, an empty dict for round 0 or when that round stored none
previous_actor_states(states, round_number) ==
    IF round_number > 0 THEN Get(states, round_number - 1, <<>>) ELSE <<>>

\* _generate_empty_round: the synthesized round_data
empty_round_data(round_number) ==
    [round_number |-> round_number,
     action_results |-> <<>>,
     continue_simulation |-> TRUE]

\* _generate_empty_round without the copy of the previous round's states
empty_round_actor_states_dropped(states, round_number) == <<>>

\* _generate_empty_round: the previous round's states, copied
empty_round_actor_states(states, round_number) ==
    previous_actor_states(states, round_number)

\* process_round: the ActiveAction built from a scheduled action with duration > 1
make_active_action(action, round_number) ==
    [actor_id |-> action.actor_id,
     action |-> action.action,
     started_round |-> round_number,
     duration |-> action.duration,
     completes_round |-> round_number + action.duration]

\* process_round: "for action in scheduled_actions: if duration > 1: add_active_action"
RECURSIVE promote_all(_, _, _)
promote_all(active, scheduled_actions, round_number) ==
    IF scheduled_actions = <<>> THEN active
    ELSE promote_all(
            IF Head(scheduled_actions).duration > 1
            THEN add_active_action(active, make_active_action(Head(scheduled_actions), round_number))
            ELSE active,
            Tail(scheduled_actions), round_number)

\* process_round: "for active in active_actions: if completes_round == round_number:
\* complete_active_action", over the list read before the provider call
RECURSIVE complete_all(_, _, _)
complete_all(active, read_before, round_number) ==
    IF read_before = <<>> THEN active
    ELSE complete_all(
            IF Head(read_before).completes_round = round_number
            THEN complete_active_action(active, Head(read_before).actor_id,
                                        Head(read_before).started_round)
            ELSE active,
            Tail(read_before), round_number)

----------------------------------------------------------------------------
(* The providers' outputs, as nondeterministic inputs *)

SeqsUpTo(S, n) == UNION {[1..k -> S] : k \in 0..n}

\* an action of a decision: {"action", "reasoning", "execute_round", "duration"}
ActionProposals(cr) ==
    [action : ActionTexts, execute_round : {cr + o : o \in ExecOffsets}, duration : Durations]

\* a message of a decision: {"to_actor_id", "content", "reasoning"}
MessageProposals ==
    [to_actor_id : {Identifier(a) : a \in ActorIds} \cup {UnknownIdentifier}]

\* what the Actor Decision Provider may answer: nothing usable, the old
\* single-action format, or the new format with its two arrays
RawDecisions(cr, room) ==
    {[format |-> "error", actions |-> <<>>, messages |-> <<>>]}
    \cup {[format |-> "old", actions |-> <<p>>, messages |-> <<>>] :
             p \in IF room > 0 THEN ActionProposals(cr) ELSE {}}
    \cup {[format |-> "new", actions |-> acts, messages |-> ms] :
             acts \in SeqsUpTo(ActionProposals(cr), room),
             ms \in SeqsUpTo(MessageProposals, IF scenario.messages THEN 1 ELSE 0)}

\* ActorActionEngine._validate_action_decision
validate_action_decision(decision) ==
    CASE decision.format = "new" ->
            \A i \in 1..Len(decision.actions) :
                /\ decision.actions[i].execute_round >= 0
                /\ decision.actions[i].duration >= 1
      [] decision.format = "old" -> decision.actions[1].duration >= 1
      [] OTHER -> FALSE

\* the actor_id values the World Update Provider may write: the provider
\* chooses them, and nothing compares them with the roster
ProviderActorIds ==
    IF scenario.results = "unknown" THEN ActorIds \cup {UnknownActorId} ELSE ActorIds

\* the order in which the explored updates list their results: roster order,
\* an unknown actor_id last
ResultIndex(a) == IF a \in ActorIds THEN ActorIndex(a) ELSE Len(Actors) + 1

\* one entry of world_update["action_results"]
ActionResults == [actor_id : ProviderActorIds, outcome : Outcomes]

\* what the World Update Provider may answer once its output passes
\* _validate_world_update, which compares the actors of the results with the
\* actors of the due actions and only warns: results for some actors, in roster
\* order, updates for some actors, and the continue flag
WorldUpdates(scheduled_actions) ==
    LET owners == {scheduled_actions[i].actor_id : i \in 1..Len(scheduled_actions)}
    IN  [action_results :
            {rs \in SeqsUpTo(ActionResults, Cardinality(ProviderActorIds)) :
                /\ \A i, j \in 1..Len(rs) :
                      i < j => ResultIndex(rs[i].actor_id) < ResultIndex(rs[j].actor_id)
                /\ scenario.results \in {"complete", "partial"} =>
                      {rs[i].actor_id : i \in 1..Len(rs)} \subseteq owners
                /\ scenario.results \in {"complete", "unknown"} =>
                      {rs[i].actor_id : i \in 1..Len(rs)} \cap ActorIds = owners},
         actor_updates :
            {us \in SUBSET (IF scenario.updates = "extra"
                            THEN ActorIds \cup {UnknownActorId} ELSE ActorIds) :
                scenario.updates \in {"complete", "extra"} => ActorIds \subseteq us},
         continue_simulation : BOOLEAN]

----------------------------------------------------------------------------
(* api.py: building the queue entries and the messages of a decision *)

\* the scheduled_action dict of schedule_action and _process_round_background
make_scheduled_action(actor_id, proposal, cr) ==
    [actor_id |-> actor_id,
     action |-> proposal.action,
     scheduled_round |-> proposal.execute_round,
     duration |-> proposal.duration,
     scheduled_at_round |-> cr,
     status |-> "pending",
     outcome |-> "NONE"]

\* _process_round_background: "for action_item in actions_list: schedule_action"
RECURSIVE schedule_all(_, _, _, _)
schedule_all(sched, actor_id, proposals, cr) ==
    IF proposals = <<>> THEN sched
    ELSE schedule_all(schedule_action(sched, make_scheduled_action(actor_id, Head(proposals), cr)),
                      actor_id, Tail(proposals), cr)

\* _process_round_background: next(a for a in actors if a.identifier == to_actor_id)
recipient_actor(to_actor_id) ==
    LET hits == {i \in 1..Len(Actors) : Identifier(Actors[i]) = to_actor_id}
    IN  IF hits = {} THEN "NONE" ELSE Actors[Min(hits)]

\* _process_round_background: the message dict stored for a resolved recipient
make_pending_message(actor_id, recipient, cr) ==
    [from_actor_id |-> actor_id,
     to_actor_id |-> recipient,
     sent_round |-> cr,
     deliver_round |-> cr + 1]

\* "for message in messages_list" without the test of the recipient: every
\* message is stored, addressed to whatever the lookup returned
RECURSIVE deliver_all_unchecked(_, _, _, _)
deliver_all_unchecked(msgs, actor_id, proposals, cr) ==
    IF proposals = <<>> THEN msgs
    ELSE deliver_all_unchecked(
            add_pending_message(msgs,
                make_pending_message(actor_id, recipient_actor(Head(proposals).to_actor_id), cr)),
            actor_id, Tail(proposals), cr)

\* _process_round_background: "for message in messages_list", dropping the
\* messages whose recipient is not found
RECURSIVE deliver_all(_, _, _, _)
deliver_all(msgs, actor_id, proposals, cr) ==
    IF proposals = <<>> THEN msgs
    ELSE deliver_all(
            IF recipient_actor(Head(proposals).to_actor_id) # "NONE"
            THEN add_pending_message(msgs,
                    make_pending_message(actor_id, recipient_actor(Head(proposals).to_actor_id), cr))
            ELSE msgs,
            actor_id, Tail(proposals), cr)

\* the messages of a decision that were handed to add_pending_message
accepted_messages(actor_id, proposals, cr) == deliver_all(<<>>, actor_id, proposals, cr)

\* number of ScheduledActions in the queue
TotalActions(sched) ==
    Cardinality(UNION {{<<r, i>> : i \in 1..Len(sched[r])} : r \in DOMAIN sched})

----------------------------------------------------------------------------
(* The roster: actor generation and enrichment *)

\* the values an enrichment may store as an actor's memory, characteristics
\* and predispositions; 0 stands for an actor without them
Memories == {1, 2}

\* the actors ActorGenerator.generate returns, not yet enriched
GeneratedActors ==
    [i \in 1..Len(Actors) |-> [actor_id |-> Actors[i], enriched |-> FALSE, memory |-> 0]]

\* a roster whose actors have all been enriched
EnrichedActors ==
    [i \in 1..Len(Actors) |-> [actor_id |-> Actors[i], enriched |-> TRUE, memory |-> 1]]

\* the actor_id of every actor of a roster
RosterIds(roster) == [i \in 1..Len(roster) |-> roster[i].actor_id]

\* storage.enrich_actor: the first actor with this actor_id gets the enrichment
\* data and enriched = True; a roster without such an actor is left as it is
enrich_actor(roster, actor_id, memory) ==
    LET hits == {i \in 1..Len(roster) : roster[i].actor_id = actor_id}
    IN  IF hits = {} THEN roster
        ELSE [roster EXCEPT ![Min(hits)] = [@ EXCEPT !.enriched = TRUE, !.memory = memory]]

Enrichers == {"e1", "e2"}

\* a thread of the pool that runs no enrichment
IdleEnricher ==
    [pc |-> "idle",
     seen |-> "none",        \* enrich_simulation: simulation.get('status'), as read
     roster |-> <<>>,        \* actor_id of simulation['actors'], as read
     idx |-> 0,              \* position of "for actor in simulation['actors']"
     enriched_count |-> 0]

----------------------------------------------------------------------------
(* The executor threads of _process_round_background *)

Workers == {"w1", "w2"}

\* the document as the process-round request found it
Snapshot ==
    [current_round |-> current_round,
     rounds |-> rounds,
     actor_states |-> actor_states,
     action_schedule |-> action_schedule,
     active_actions |-> active_actions,
     pending_messages |-> pending_messages]

NoSnapshot ==
    [current_round |-> 0, rounds |-> <<>>, actor_states |-> <<>>,
     action_schedule |-> <<>>, active_actions |-> <<>>, pending_messages |-> <<>>]

\* a thread of the pool that runs no round
IdleWorker ==
    [pc |-> "idle",
     round |-> 0,                  \* the current_round argument
     idx |-> 0,                    \* position of "for actor in actors"
     unresolved |-> {},            \* history: actors with a message whose recipient
                                   \* was not found ("Message recipient not found"),
                                   \* kept until the World Update step is over
     raised |-> {},                \* history: actors whose turn ended in "except",
                                   \* kept until the World Update step is over
     roster |-> <<>>,              \* actor_id of simulation.get('actors'), as read
     scheduled_actions |-> <<>>,   \* process_round: scheduled_actions
     active_actions |-> <<>>,      \* process_round: active_actions
     prev_actor_states |-> <<>>,   \* process_round: prev_actor_states
     attempt |-> 0,                \* provider calls made by the retry loop
     world_update |-> <<>>,        \* <<>> is None, <<u>> the validated update u
     round_data |-> empty_round_data(0),   \* result["round_data"]
     actor_states |-> <<>>,                \* result["actor_states"]
     ridx |-> 0,                   \* position of "for action_result in action_results"
     bucket |-> <<>>,              \* update_scheduled_action_status: actions, as read
     pre |-> NoSnapshot]

Init ==
    /\ status = "enriched"
    /\ current_round = 0
    /\ rounds = <<>>
    /\ actor_states = <<>>
    /\ action_schedule = <<>>
    /\ active_actions = <<>>
    /\ pending_messages = <<>>
    /\ workers = [w \in Workers |-> IdleWorker]
    /\ sent_log = <<>>
    /\ scenario \in Scenarios
    /\ actors = EnrichedActors
    /\ generation = "done"
    /\ enrichers = [e \in Enrichers |-> IdleEnricher]

----------------------------------------------------------------------------
(* api.py: the request handlers *)

\* POST /schedule-action: the action is pushed onto the bucket of its
\* execute_round; no field of the request is compared with the simulation
schedule_action_request(actor_id, proposal) ==
    LET scheduled_action == make_scheduled_action(actor_id, proposal, current_round)
    IN  /\ TotalActions(action_schedule) + Len(sent_log) < MaxProposals
        /\ action_schedule' = schedule_action(action_schedule, scheduled_action)
        /\ UNCHANGED <<status, current_round, rounds, actor_states, active_actions,
                       pending_messages, workers, sent_log, scenario, lifecycle>>

\* POST /process-round without the check of the status
process_round_unguarded(w) ==
    /\ current_round < scenario.rounds
    /\ workers[w].pc = "idle"
    /\ status' = "running"
    /\ workers' = [workers EXCEPT ![w] =
                      [IdleWorker EXCEPT !.pc = "gather", !.round = current_round,
                                         !.idx = 1, !.roster = RosterIds(actors),
                                         !.pre = Snapshot]]
    /\ UNCHANGED <<current_round, rounds, actor_states, action_schedule,
                   active_actions, pending_messages, sent_log, scenario, lifecycle>>

\* POST /process-round: refused unless the status is enriched or running;
\* otherwise the status becomes running and a worker starts on current_round
process_round_request(w) ==
    /\ current_round < scenario.rounds
    /\ workers[w].pc = "idle"
    /\ status \in {"enriched", "running"}
    /\ status' = "running"
    /\ workers' = [workers EXCEPT ![w] =
                      [IdleWorker EXCEPT !.pc = "gather", !.round = current_round,
                                         !.idx = 1, !.roster = RosterIds(actors),
                                         !.pre = Snapshot]]
    /\ UNCHANGED <<current_round, rounds, actor_states, action_schedule,
                   active_actions, pending_messages, sent_log, scenario, lifecycle>>

\* no round of the simulation is being processed
NoRoundInProgress == \A v \in Workers : workers[v].pc = "idle"

\* a caller that submits a request and polls the simulation until the round
\* is complete before it submits the next one
SerialProcessRound ==
    /\ NoRoundInProgress
    /\ process_round_request(CHOOSE w \in Workers : TRUE)

SerialScheduleAction ==
    /\ scenario.requests
    /\ NoRoundInProgress
    /\ \E a \in ActorIds : \E p \in ActionProposals(current_round) :
          schedule_action_request(a, p)

----------------------------------------------------------------------------
(* api.py: _process_round_background, one step per actor and per storage call *)

\* STEP 1 with the "try" around the whole loop: the first actor whose decision
\* raises ends the worker
GatherActionsAborting(w) ==
    /\ workers[w].pc = "gather"
    /\ workers[w].idx <= Len(workers[w].roster)
    /\ LET actor_id == workers[w].roster[workers[w].idx]
           cr == workers[w].round
           room == MaxProposals - TotalActions(action_schedule) - Len(sent_log)
       IN  \E decision \in RawDecisions(cr, room) :
              /\ Len(sent_log) + Len(accepted_messages(actor_id, decision.messages, cr))
                    <= MaxMessages
              /\ Len(decision.actions)
                    + Len(accepted_messages(actor_id, decision.messages, cr)) <= room
              /\ IF validate_action_decision(decision)
                 THEN /\ action_schedule' =
                            schedule_all(action_schedule, actor_id, decision.actions, cr)
                      /\ pending_messages' =
                            deliver_all(pending_messages, actor_id, decision.messages, cr)
                      /\ sent_log' =
                            sent_log \o accepted_messages(actor_id, decision.messages, cr)
                      /\ workers' = [workers EXCEPT
                            ![w].idx = @ + 1,
                            ![w].attempt = 0,
                            ![w].unresolved =
                                IF \E i \in 1..Len(decision.messages) :
                                      recipient_actor(decision.messages[i].to_actor_id) = "NONE"
                                THEN @ \cup {actor_id} ELSE @]
                 ELSE /\ workers' = [workers EXCEPT ![w] =
                            IF workers[w].attempt + 1 < MAX_RETRIES
                            THEN [@ EXCEPT !.attempt = @ + 1]
                            ELSE [@ EXCEPT !.attempt = 0, !.pc = "failed",
                                           !.raised = @ \cup {actor_id}]]
                      /\ UNCHANGED <<action_schedule, pending_messages, sent_log>>
    /\ UNCHANGED <<status, current_round, rounds, actor_states, active_actions, scenario, lifecycle>>

\* STEP 1, one provider call of a turn of "for actor in actors", inside the
\* retry loop of generate_action: an output that fails validation counts an
\* attempt, and the last of MAX_RETRIES raises, the exception is caught and the
\* loop goes on to the next actor; an output that passes ends the call, every
\* action of the decision is scheduled and every message with a known
\* recipient is stored
GatherActions(w) ==
    /\ workers[w].pc = "gather"
    /\ workers[w].idx <= Len(workers[w].roster)
    /\ LET actor_id == workers[w].roster[workers[w].idx]
           cr == workers[w].round
           room == MaxProposals - TotalActions(action_schedule) - Len(sent_log)
       IN  \E decision \in RawDecisions(cr, room) :
              /\ Len(sent_log) + Len(accepted_messages(actor_id, decision.messages, cr))
                    <= MaxMessages
              /\ Len(decision.actions)
                    + Len(accepted_messages(actor_id, decision.messages, cr)) <= room
              /\ IF validate_action_decision(decision)
                 THEN /\ action_schedule' =
                            schedule_all(action_schedule, actor_id, decision.actions, cr)
                      /\ pending_messages' =
                            deliver_all(pending_messages, actor_id, decision.messages, cr)
                      /\ sent_log' =
                            sent_log \o accepted_messages(actor_id, decision.messages, cr)
                      /\ workers' = [workers EXCEPT
                            ![w].idx = @ + 1,
                            ![w].attempt = 0,
                            ![w].unresolved =
                                IF \E i \in 1..Len(decision.messages) :
                                      recipient_actor(decision.messages[i].to_actor_id) = "NONE"
                                THEN @ \cup {actor_id} ELSE @]
                 ELSE /\ workers' = [workers EXCEPT ![w] =
                            IF workers[w].attempt + 1 < MAX_RETRIES
                            THEN [@ EXCEPT !.attempt = @ + 1]
                            ELSE [@ EXCEPT !.attempt = 0, !.idx = @ + 1,
                                           !.raised = @ \cup {actor_id}]]
                      /\ UNCHANGED <<action_schedule, pending_messages, sent_log>>
    /\ UNCHANGED <<status, current_round, rounds, actor_states, active_actions, scenario, lifecycle>>

\* STEP 2 with the bucket as it was before STEP 1: the actions scheduled while
\* the round is processed are not passed to the provider
StartWorldEngineStale(w) ==
    /\ workers[w].pc = "gather"
    /\ workers[w].idx > Len(workers[w].roster)
    /\ LET rn == workers[w].round
           scheduled_actions == SelectSeq(get_scheduled_actions(action_schedule, rn),
                                          LAMBDA x : x.scheduled_at_round < rn)
       IN  workers' = [workers EXCEPT ![w] =
              IF scheduled_actions = <<>>
              THEN [@ EXCEPT !.pc = "add_round",
                             !.raised = {},
                             !.unresolved = {},
                             !.round_data = empty_round_data(rn),
                             !.actor_states = empty_round_actor_states(actor_states, rn)]
              ELSE [@ EXCEPT !.pc = "llm",
                             !.scheduled_actions = scheduled_actions,
                             !.active_actions = active_actions,
                             !.prev_actor_states = previous_actor_states(actor_states, rn)]]
    /\ UNCHANGED <<status, current_round, rounds, actor_states, action_schedule,
                   active_actions, pending_messages, sent_log, scenario, lifecycle>>

\* STEP 2, the head of WorldEngine.process_round: the bucket of the round is
\* read; an empty bucket returns _generate_empty_round at once, otherwise the
\* active actions and the previous actor states are read for the provider call
StartWorldEngine(w) ==
    /\ workers[w].pc = "gather"
    /\ workers[w].idx > Len(workers[w].roster)
    /\ LET rn == workers[w].round
           scheduled_actions == get_scheduled_actions(action_schedule, rn)
       IN  workers' = [workers EXCEPT ![w] =
              IF scheduled_actions = <<>>
              THEN [@ EXCEPT !.pc = "add_round",
                             !.raised = {},
                             !.unresolved = {},
                             !.round_data = empty_round_data(rn),
                             !.actor_states = empty_round_actor_states(actor_states, rn)]
              ELSE [@ EXCEPT !.pc = "llm",
                             !.scheduled_actions = scheduled_actions,
                             !.active_actions = active_actions,
                             !.prev_actor_states = previous_actor_states(actor_states, rn)]]
    /\ UNCHANGED <<status, current_round, rounds, actor_states, action_schedule,
                   active_actions, pending_messages, sent_log, scenario, lifecycle>>

\* the retry loop with the round closed in a "finally": the counter advances
\* although last_error is raised
WorldUpdateFailsAdvancing(w) ==
    /\ workers[w].pc = "llm"
    /\ workers[w].attempt < MAX_RETRIES
    /\ workers' = [workers EXCEPT ![w].attempt = @ + 1,
                                  ![w].raised = IF workers[w].attempt + 1 = MAX_RETRIES
                                                THEN {} ELSE @,
                                  ![w].unresolved = IF workers[w].attempt + 1 = MAX_RETRIES
                                                    THEN {} ELSE @,
                                  ![w].pc = IF workers[w].attempt + 1 = MAX_RETRIES
                                            THEN "failed" ELSE "llm"]
    /\ current_round' = IF workers[w].attempt + 1 = MAX_RETRIES
                        THEN current_round + 1 ELSE current_round
    /\ UNCHANGED <<status, rounds, actor_states, action_schedule,
                   active_actions, pending_messages, sent_log, scenario, lifecycle>>

\* the retry loop inside a "while True" around the round: after the last
\* attempt the worker starts the round again
WorldUpdateFailsRestarting(w) ==
    /\ workers[w].pc = "llm"
    /\ workers[w].attempt < MAX_RETRIES
    /\ workers' = [workers EXCEPT ![w] =
                      IF workers[w].attempt + 1 = MAX_RETRIES
                      THEN [@ EXCEPT !.attempt = 0, !.raised = {}, !.unresolved = {}, !.idx = 1, !.pc = "gather"]
                      ELSE [@ EXCEPT !.attempt = @ + 1]]
    /\ UNCHANGED <<status, current_round, rounds, actor_states, action_schedule,
                   active_actions, pending_messages, sent_log, scenario, lifecycle>>

\* the retry loop as "for attempt in range(1, MAX_RETRIES + 2)": a fourth
\* attempt follows three malformed outputs
WorldUpdateFailsOnceMore(w) ==
    /\ workers[w].pc = "llm"
    /\ workers[w].attempt <= MAX_RETRIES
    /\ workers' = [workers EXCEPT ![w].attempt = @ + 1,
                                  ![w].raised = IF workers[w].attempt = MAX_RETRIES
                                                THEN {} ELSE @,
                                  ![w].unresolved = IF workers[w].attempt = MAX_RETRIES
                                                    THEN {} ELSE @,
                                  ![w].pc = IF workers[w].attempt = MAX_RETRIES
                                            THEN "failed" ELSE "llm"]
    /\ UNCHANGED <<status, current_round, rounds, actor_states, action_schedule,
                   active_actions, pending_messages, sent_log, scenario, lifecycle>>

\* one attempt of the retry loop whose output cannot be parsed or validated;
\* after MAX_RETRIES of them last_error is raised, _process_round_background
\* catches it, prints it and ends
WorldUpdateFails(w) ==
    /\ workers[w].pc = "llm"
    /\ workers[w].attempt < MAX_RETRIES
    /\ workers' = [workers EXCEPT ![w].attempt = @ + 1,
                                  ![w].raised = IF workers[w].attempt + 1 = MAX_RETRIES
                                                THEN {} ELSE @,
                                  ![w].unresolved = IF workers[w].attempt + 1 = MAX_RETRIES
                                                    THEN {} ELSE @,
                                  ![w].pc = IF workers[w].attempt + 1 = MAX_RETRIES
                                            THEN "failed" ELSE "llm"]
    /\ UNCHANGED <<status, current_round, rounds, actor_states, action_schedule,
                   active_actions, pending_messages, sent_log, scenario, lifecycle>>

\* one attempt of the retry loop whose output passes _validate_world_update:
\* "break" leaves the loop, whose counter is not read again
WorldUpdateSucceeds(w) ==
    /\ workers[w].pc = "llm"
    /\ workers[w].attempt < MAX_RETRIES
    /\ \E world_update \in WorldUpdates(workers[w].scheduled_actions) :
          workers' = [workers EXCEPT ![w].attempt = 0,
                                     ![w].raised = {},
                                     ![w].unresolved = {},
                                     ![w].world_update = <<world_update>>,
                                     ![w].pc = "convert"]
    /\ UNCHANGED <<status, current_round, rounds, actor_states, action_schedule,
                   active_actions, pending_messages, sent_log, scenario, lifecycle>>

\* get_messages_for_round, _convert_to_storage_format and, when there are
\* messages for the round, clear_delivered_messages
ConvertAndClear(w) ==
    /\ workers[w].pc = "convert"
    /\ LET rn == workers[w].round
           world_update == workers[w].world_update[1]
           msgs == get_messages_for_round(pending_messages, rn)
       IN  /\ workers' = [workers EXCEPT ![w] =
                 [@ EXCEPT !.pc = "status",
                           !.ridx = 1,
                           !.round_data = convert_round_data(world_update, rn),
                           !.actor_states = convert_actor_states(
                                world_update, rn, workers[w].scheduled_actions,
                                workers[w].prev_actor_states, msgs)]]
           /\ pending_messages' = IF msgs # <<>>
                                  THEN clear_delivered_messages(pending_messages, rn)
                                  ELSE pending_messages
    /\ UNCHANGED <<status, current_round, rounds, actor_states, action_schedule,
                   active_actions, sent_log, scenario, lifecycle>>

\* one turn of "for action_result in world_update['action_results']"
UpdateActionStatus(w) ==
    /\ workers[w].pc = "status"
    /\ workers[w].ridx <= Len(workers[w].world_update[1].action_results)
    /\ LET action_result == workers[w].world_update[1].action_results[workers[w].ridx]
       IN  action_schedule' = update_scheduled_action_status(
                action_schedule, workers[w].round, action_result.actor_id,
                "completed", action_result.outcome)
    /\ workers' = [workers EXCEPT ![w].ridx = @ + 1]
    /\ UNCHANGED <<status, current_round, rounds, actor_states, active_actions,
                   pending_messages, sent_log, scenario, lifecycle>>

\* "for action in scheduled_actions: if action['duration'] > 1: add_active_action"
PromoteMultiRound(w) ==
    /\ workers[w].pc = "status"
    /\ workers[w].ridx > Len(workers[w].world_update[1].action_results)
    /\ active_actions' = promote_all(active_actions, workers[w].scheduled_actions,
                                     workers[w].round)
    /\ workers' = [workers EXCEPT ![w].pc = "complete"]
    /\ UNCHANGED <<status, current_round, rounds, actor_states, action_schedule,
                   pending_messages, sent_log, scenario, lifecycle>>

\* "for active in active_actions: if completes_round == round_number:
\* complete_active_action"; process_round then returns its result
CompleteMultiRound(w) ==
    /\ workers[w].pc = "complete"
    /\ active_actions' = complete_all(active_actions, workers[w].active_actions,
                                      workers[w].round)
    /\ workers' = [workers EXCEPT ![w].pc = "add_round"]
    /\ UNCHANGED <<status, current_round, rounds, actor_states, action_schedule,
                   pending_messages, sent_log, scenario, lifecycle>>

\* storage.add_round that also removes the messages of the round from the
\* mailbox, whether the round had due actions or not
AddRoundClearing(w) ==
    /\ workers[w].pc = "add_round"
    /\ rounds' = add_round_rounds(rounds, workers[w].round_data)
    /\ actor_states' = add_round_actor_states(actor_states, workers[w].round_data,
                                              workers[w].actor_states)
    /\ current_round' = add_round_counter(current_round)
    /\ pending_messages' = clear_delivered_messages(pending_messages, workers[w].round)
    /\ workers' = [workers EXCEPT ![w].pc = "stored"]
    /\ UNCHANGED <<status, action_schedule, active_actions, sent_log, scenario, lifecycle>>

\* storage.add_round: the round is pushed, its actor states are set and the
\* counter is incremented, in one update of the document
AddRound(w) ==
    /\ workers[w].pc = "add_round"
    /\ rounds' = add_round_rounds(rounds, workers[w].round_data)
    /\ actor_states' = add_round_actor_states(actor_states, workers[w].round_data,
                                              workers[w].actor_states)
    /\ current_round' = add_round_counter(current_round)
    /\ workers' = [workers EXCEPT ![w].pc = "stored"]
    /\ UNCHANGED <<status, action_schedule, active_actions, pending_messages, sent_log, scenario, lifecycle>>

\* the last statement of the worker without its condition: the status becomes
\* "completed" after every stored round
FinishRoundCompleting(w) ==
    /\ workers[w].pc = "stored"
    /\ status' = "completed"
    /\ workers' = [workers EXCEPT ![w].pc = "persisted"]
    /\ UNCHANGED <<current_round, rounds, actor_states, action_schedule,
                   active_actions, pending_messages, sent_log, scenario, lifecycle>>

\* "if not continue_simulation: update_simulation_status(completed)", the last
\* statement of the worker
FinishRound(w) ==
    /\ workers[w].pc = "stored"
    /\ status' = IF workers[w].round_data.continue_simulation THEN status ELSE "completed"
    /\ workers' = [workers EXCEPT ![w].pc = "persisted"]
    /\ UNCHANGED <<current_round, rounds, actor_states, action_schedule,
                   active_actions, pending_messages, sent_log, scenario, lifecycle>>

\* the thread returns to the pool
Return(w) ==
    /\ workers[w].pc \in {"persisted", "failed"}
    /\ workers' = [workers EXCEPT ![w] = IdleWorker]
    /\ UNCHANGED <<status, current_round, rounds, actor_states, action_schedule,
                   active_actions, pending_messages, sent_log, scenario, lifecycle>>

----------------------------------------------------------------------------
(* Specification: requests of a caller that serialises round processing *)

Next ==
    \/ SerialScheduleAction
    \/ SerialProcessRound
    \/ \E w \in Workers : GatherActions(w)
    \/ \E w \in Workers : StartWorldEngine(w)
    \/ \E w \in Workers : WorldUpdateFails(w)
    \/ \E w \in Workers : WorldUpdateSucceeds(w)
    \/ \E w \in Workers : ConvertAndClear(w)
    \/ \E w \in Workers : UpdateActionStatus(w)
    \/ \E w \in Workers : PromoteMultiRound(w)
    \/ \E w \in Workers : CompleteMultiRound(w)
    \/ \E w \in Workers : AddRound(w)
    \/ \E w \in Workers : FinishRound(w)
    \/ \E w \in Workers : Return(w)

Spec == Init /\ [][Next]_vars

----------------------------------------------------------------------------
(* Specification: the same, with executor threads that run on: every provider
   call returns or raises and every storage call returns *)

\* the next statement of the thread that runs worker w
WorkerStep(w) ==
    \/ GatherActions(w)
    \/ StartWorldEngine(w)
    \/ WorldUpdateFails(w)
    \/ WorldUpdateSucceeds(w)
    \/ ConvertAndClear(w)
    \/ UpdateActionStatus(w)
    \/ PromoteMultiRound(w)
    \/ CompleteMultiRound(w)
    \/ AddRound(w)
    \/ FinishRound(w)
    \/ Return(w)

\* the runs whose caller schedules actions and asks for rounds
FairInit == Init /\ scenario.name = "scheduling"

FairSpec == FairInit /\ [][Next]_vars /\ \A w \in Workers : WF_vars(WorkerStep(w))

----------------------------------------------------------------------------
(* api.py: the life cycle from create to the first round *)

\* the inputs of a run that follows a simulation from its creation
LifecycleScenario ==
    [name |-> "lifecycle", outcomes |-> {"SUCCESS"}, offsets |-> {0}, durations |-> {1}, requests |-> FALSE,
     messages |-> FALSE, results |-> "complete", updates |-> "complete", rounds |-> MaxLifecycleRound]

\* POST /create has run: storage.create_simulation stored the document with
\* status "created" and no actors, and _generate_actors_background is started
LifecycleInit ==
    /\ status = "created"
    /\ current_round = 0
    /\ rounds = <<>>
    /\ actor_states = <<>>
    /\ action_schedule = <<>>
    /\ active_actions = <<>>
    /\ pending_messages = <<>>
    /\ workers = [w \in Workers |-> IdleWorker]
    /\ sent_log = <<>>
    /\ scenario = LifecycleScenario
    /\ actors = <<>>
    /\ generation = "running"
    /\ enrichers = [e \in Enrichers |-> IdleEnricher]

\* _generate_actors_background, generator.generate returns: update_simulation
\* sets the actors and the status "created"
GenerateActorsSucceeds ==
    /\ generation = "running"
    /\ actors' = GeneratedActors
    /\ status' = "created"
    /\ generation' = "done"
    /\ UNCHANGED <<current_round, rounds, actor_states, action_schedule, active_actions,
                   pending_messages, workers, sent_log, scenario, enrichers>>

\* _generate_actors_background, generator.generate raises: the status becomes
\* "failed"
GenerateActorsFails ==
    /\ generation = "running"
    /\ status' = "failed"
    /\ generation' = "done"
    /\ UNCHANGED <<current_round, rounds, actor_states, action_schedule, active_actions,
                   pending_messages, workers, sent_log, scenario, actors, enrichers>>

\* POST /enrich: refused with 400 while the status is "enriching", answered
\* without a change when it is "enriched"; in every other status the status
\* becomes "enriching" and _run_enrichment is started, which reads the roster
enrich_simulation(e) ==
    /\ enrichers[e].pc = "idle"
    /\ status \notin {"enriching", "enriched"}
    /\ status' = "enriching"
    /\ enrichers' = [enrichers EXCEPT ![e] =
                        [pc |-> "enrich", seen |-> "none", roster |-> RosterIds(actors),
                         idx |-> 1, enriched_count |-> 0]]
    /\ UNCHANGED <<current_round, rounds, actor_states, action_schedule, active_actions,
                   pending_messages, workers, sent_log, scenario, actors, generation>>

\* the request of a caller that posts no request while a round is processed;
\* it is served by a free thread of the pool
SerialEnrichRequest ==
    /\ NoRoundInProgress
    /\ \E e \in Enrichers : enrichers[e].pc = "idle"
    /\ enrich_simulation(CHOOSE e \in Enrichers : enrichers[e].pc = "idle")

\* one turn of "for actor in simulation['actors']": enricher.enrich returns and
\* enrich_actor stores its data, or it raises and the loop continues
EnrichActor(e) ==
    /\ enrichers[e].pc = "enrich"
    /\ enrichers[e].idx <= Len(enrichers[e].roster)
    /\ \/ \E memory \in Memories :
             /\ actors' = enrich_actor(actors, enrichers[e].roster[enrichers[e].idx], memory)
             /\ enrichers' = [enrichers EXCEPT ![e].idx = @ + 1,
                                               ![e].enriched_count = @ + 1]
       \/ /\ actors' = actors
          /\ enrichers' = [enrichers EXCEPT ![e].idx = @ + 1]
    /\ UNCHANGED <<status, current_round, rounds, actor_states, action_schedule,
                   active_actions, pending_messages, workers, sent_log, scenario, generation>>

\* the end of _run_enrichment: "enriched" if every actor of the loop was
\* enriched, "created" otherwise
FinishEnrichment(e) ==
    /\ enrichers[e].pc = "enrich"
    /\ enrichers[e].idx > Len(enrichers[e].roster)
    /\ status' = IF enrichers[e].enriched_count = Len(enrichers[e].roster)
                 THEN "enriched" ELSE "created"
    /\ enrichers' = [enrichers EXCEPT ![e] = IdleEnricher]
    /\ UNCHANGED <<current_round, rounds, actor_states, action_schedule, active_actions,
                   pending_messages, workers, sent_log, scenario, actors, generation>>

LifecycleNext ==
    \/ GenerateActorsSucceeds
    \/ GenerateActorsFails
    \/ SerialEnrichRequest
    \/ \E e \in Enrichers : EnrichActor(e)
    \/ \E e \in Enrichers : FinishEnrichment(e)
    \/ SerialProcessRound
    \/ \E w \in Workers : GatherActions(w)
    \/ \E w \in Workers : StartWorldEngine(w)
    \/ \E w \in Workers : WorldUpdateFails(w)
    \/ \E w \in Workers : WorldUpdateSucceeds(w)
    \/ \E w \in Workers : ConvertAndClear(w)
    \/ \E w \in Workers : UpdateActionStatus(w)
    \/ \E w \in Workers : PromoteMultiRound(w)
    \/ \E w \in Workers : CompleteMultiRound(w)
    \/ \E w \in Workers : AddRound(w)
    \/ \E w \in Workers : FinishRound(w)
    \/ \E w \in Workers : Return(w)

LifecycleSpec == LifecycleInit /\ [][LifecycleNext]_vars

----------------------------------------------------------------------------
(* Enrich requests that arrive together: the handler awaits its read of the
   simulation and its write of the status in two calls of the thread pool *)

\* POST /enrich, first half: "simulation = await ...(storage.get_simulation)"
ReadEnrichStatus(e) ==
    /\ enrichers[e].pc = "idle"
    /\ enrichers' = [enrichers EXCEPT ![e].pc = "request", ![e].seen = status]
    /\ UNCHANGED <<status, current_round, rounds, actor_states, action_schedule, active_actions,
                   pending_messages, workers, sent_log, scenario, actors, generation>>

\* POST /enrich, second half: the status that was read decides; 400 for
\* "enriching", an answer without a change for "enriched", otherwise the status
\* is set to "enriching" and _run_enrichment starts and reads the roster
StartEnrichment(e) ==
    /\ enrichers[e].pc = "request"
    /\ IF enrichers[e].seen \in {"enriching", "enriched"}
       THEN /\ enrichers' = [enrichers EXCEPT ![e] = IdleEnricher]
            /\ UNCHANGED status
       ELSE /\ status' = "enriching"
            /\ enrichers' = [enrichers EXCEPT ![e] =
                                [pc |-> "enrich", seen |-> "none", roster |-> RosterIds(actors),
                                 idx |-> 1, enriched_count |-> 0]]
    /\ UNCHANGED <<current_round, rounds, actor_states, action_schedule, active_actions,
                   pending_messages, workers, sent_log, scenario, actors, generation>>

EnrichmentNext ==
    \/ GenerateActorsSucceeds
    \/ GenerateActorsFails
    \/ \E e \in Enrichers : ReadEnrichStatus(e)
    \/ \E e \in Enrichers : StartEnrichment(e)
    \/ \E e \in Enrichers : EnrichActor(e)
    \/ \E e \in Enrichers : FinishEnrichment(e)

EnrichmentSpec == LifecycleInit /\ [][EnrichmentNext]_vars

----------------------------------------------------------------------------
(* Requests that arrive while a round is being processed *)

\* the inputs of a run whose caller does not wait for a round to complete
ConcurrentScenario ==
    [name |-> "concurrent", outcomes |-> {"SUCCESS"}, offsets |-> {0}, durations |-> {1}, requests |-> TRUE,
     messages |-> FALSE, results |-> "complete", updates |-> "complete", rounds |-> MaxConcurrentRound]

ConcurrentInit ==
    /\ status = "enriched"
    /\ current_round = 0
    /\ rounds = <<>>
    /\ actor_states = <<>>
    /\ action_schedule = <<>>
    /\ active_actions = <<>>
    /\ pending_messages = <<>>
    /\ workers = [w \in Workers |-> IdleWorker]
    /\ sent_log = <<>>
    /\ scenario = ConcurrentScenario
    /\ actors = EnrichedActors
    /\ generation = "done"
    /\ enrichers = [e \in Enrichers |-> IdleEnricher]

\* POST /schedule-action at any moment
ScheduleAction ==
    \E a \in ActorIds : \E p \in ActionProposals(current_round) :
        schedule_action_request(a, p)

\* update_scheduled_action_status, first half: get_scheduled_actions reads the
\* bucket of the round
ReadActionStatus(w) ==
    /\ workers[w].pc = "status"
    /\ workers[w].ridx <= Len(workers[w].world_update[1].action_results)
    /\ workers' = [workers EXCEPT
                      ![w].pc = "status_write",
                      ![w].bucket = get_scheduled_actions(action_schedule, workers[w].round)]
    /\ UNCHANGED <<status, current_round, rounds, actor_states, action_schedule,
                   active_actions, pending_messages, sent_log, scenario, lifecycle>>

\* update_scheduled_action_status, second half: the list that was read is
\* modified and $set as the bucket of the round
WriteActionStatus(w) ==
    /\ workers[w].pc = "status_write"
    /\ LET action_result == workers[w].world_update[1].action_results[workers[w].ridx]
       IN  action_schedule' =
               SetKey(action_schedule, workers[w].round,
                      mark_first_action(workers[w].bucket, action_result.actor_id,
                                        "completed", action_result.outcome))
    /\ workers' = [workers EXCEPT ![w].pc = "status", ![w].ridx = @ + 1, ![w].bucket = <<>>]
    /\ UNCHANGED <<status, current_round, rounds, actor_states, active_actions,
                   pending_messages, sent_log, scenario, lifecycle>>

ConcurrentNext ==
    \/ ScheduleAction
    \/ \E w \in Workers : process_round_request(w)
    \/ \E w \in Workers : GatherActions(w)
    \/ \E w \in Workers : StartWorldEngine(w)
    \/ \E w \in Workers : WorldUpdateFails(w)
    \/ \E w \in Workers : WorldUpdateSucceeds(w)
    \/ \E w \in Workers : ConvertAndClear(w)
    \/ \E w \in Workers : ReadActionStatus(w)
    \/ \E w \in Workers : WriteActionStatus(w)
    \/ \E w \in Workers : PromoteMultiRound(w)
    \/ \E w \in Workers : CompleteMultiRound(w)
    \/ \E w \in Workers : AddRound(w)
    \/ \E w \in Workers : FinishRound(w)
    \/ \E w \in Workers : Return(w)

ConcurrentSpec == ConcurrentInit /\ [][ConcurrentNext]_vars

----------------------------------------------------------------------------
(* Properties *)

\* worker w stores the round it processed in this step
Stores(w) == workers[w].pc = "add_round" /\ workers'[w].pc = "stored"

\* the invocation of worker w has ended in Failed
Failed(w) == workers[w].pc = "failed"

\* the invocation of worker w has stored its round
Stored(w) == workers[w].pc \in {"stored", "persisted"}

\* my_actions of actor a in the ActorRoundState of round n, empty when the
\* round stored no state for a
MyActions(n, a) ==
    IF n \in DOMAIN actor_states /\ a \in DOMAIN actor_states[n]
    THEN actor_states[n][a].my_actions ELSE <<>>

\* messages_received of actor a in the ActorRoundState of round n
MessagesReceived(n, a) ==
    IF n \in DOMAIN actor_states /\ a \in DOMAIN actor_states[n]
    THEN actor_states[n][a].messages_received ELSE <<>>

\* C1: with serialised process-round invocations, a step changes current_round
\* exactly when a worker stores its round, that worker processed round
\* current_round, and the step moves the counter to current_round + 1.
C1_CounterAdvancesByOne ==
    [][/\ current_round' # current_round <=> \E w \in Workers : Stores(w)
       /\ \A w \in Workers :
             Stores(w) => /\ workers[w].round = current_round
                          /\ current_round' = workers[w].round + 1]_vars

\* C1 witness: round 1 has just been stored and the counter is 2
C1_Witness ==
    \E w \in Workers :
        workers[w].pc = "stored" /\ workers[w].round = 1 /\ current_round = 2

C3_FailedLeavesNoTrace ==
    \A w \in Workers :
        Failed(w) =>
            /\ action_schedule = workers[w].pre.action_schedule
            /\ pending_messages = workers[w].pre.pending_messages
            /\ active_actions = workers[w].pre.active_actions
            /\ actor_states = workers[w].pre.actor_states
            /\ rounds = workers[w].pre.rounds
            /\ current_round = workers[w].pre.current_round

\* C4: for every actor a and every processed round n >= 1, my_actions of a for
\* round n - 1 is a prefix of my_actions of a for round n.
C4_MyActionsAppendOnly ==
    \A n \in 1..(current_round - 1) :
        \A a \in ActorIds : IsPrefix(MyActions(n - 1, a), MyActions(n, a))

\* what my_actions keeps of a ScheduledAction
Entry(x) == <<x.scheduled_round, x.action, x.duration>>

\* the number of occurrences of e in sequence q
Occ(q, e) == Cardinality({i \in 1..Len(q) : q[i] = e})

\* the actions of actor a in the bucket of round r whose status is in S
BucketEntries(a, r, S) ==
    LET sel == SelectSeq(get_scheduled_actions(action_schedule, r),
                         LAMBDA x : x.actor_id = a /\ x.status \in S)
    IN  [i \in 1..Len(sel) |-> Entry(sel[i])]

\* C5: after round n is processed, my_actions of actor a is in ascending round
\* order, names rounds 0..n only, and for every round r <= n holds an entry for
\* each action of a that the queue shows completed in r and no more entries
\* than a has actions in the bucket of r.
C5_MyActionsAreTheResolvedActions ==
    \A n \in 0..(current_round - 1) :
        \A a \in ActorIds :
            LET my == [i \in 1..Len(MyActions(n, a)) |-> Entry(MyActions(n, a)[i])]
            IN  /\ \A i, j \in 1..Len(my) : i < j => my[i][1] <= my[j][1]
                /\ \A i \in 1..Len(my) : my[i][1] \in 0..n
                /\ \A r \in 0..n :
                      LET done == BucketEntries(a, r, {"completed"})
                          due  == BucketEntries(a, r, {"pending", "completed"})
                      IN  \A e \in Range(due) \cup {my[i] : i \in {k \in 1..Len(my) : my[k][1] = r}} :
                              /\ Occ(my, e) >= Occ(done, e)
                              /\ Occ(my, e) <= Occ(due, e)

\* the tracker holds an ActiveAction of actor a started in round r that
\* completes in round c
InTracker(a, r, c) ==
    \E i \in 1..Len(active_actions) :
        /\ active_actions[i].actor_id = a
        /\ active_actions[i].started_round = r
        /\ active_actions[i].completes_round = c

\* C6: between two invocations, an executed ScheduledAction of round r with
\* duration d > 1 has its ActiveAction in the tracker once round r is processed
\* and until round r + d is processed, and not after; no ActiveAction is in the
\* tracker before its round is processed.
C6_ActiveActionLifetime ==
    NoRoundInProgress =>
        /\ \A r \in DOMAIN action_schedule :
              \A i \in 1..Len(action_schedule[r]) :
                  LET x == action_schedule[r][i]
                  IN  (x.duration > 1 /\ x.status = "completed") =>
                         /\ current_round \in (r + 1)..(r + x.duration) =>
                               InTracker(x.actor_id, r, r + x.duration)
                         /\ current_round > r + x.duration =>
                               ~InTracker(x.actor_id, r, r + x.duration)
        /\ \A i \in 1..Len(active_actions) :
              active_actions[i].started_round < current_round

\* what messages_received keeps of a PendingMessage
Received(m) == [from_actor_id |-> m.from_actor_id, sent_round |-> m.sent_round]

\* C7: a message sent in round n to a known actor is in messages_received of
\* that actor for round n + 1 once that round is processed, and every entry of
\* a messages_received list is a message sent to that actor one round earlier.
C7_MessageDeliveredNextRoundOnly ==
    /\ \A k \in 1..Len(sent_log) :
          sent_log[k].deliver_round < current_round =>
              Received(sent_log[k]) \in
                  Range(MessagesReceived(sent_log[k].deliver_round, sent_log[k].to_actor_id))
    /\ \A n \in DOMAIN actor_states :
          \A a \in DOMAIN actor_states[n] :
              \A x \in Range(actor_states[n][a].messages_received) :
                  \E k \in 1..Len(sent_log) :
                      /\ Received(sent_log[k]) = x
                      /\ sent_log[k].to_actor_id = a
                      /\ sent_log[k].deliver_round = n

\* C8: the mailbox holds no message whose deliver_round is a processed round.
C8_MailboxPurged ==
    \A i \in 1..Len(pending_messages) : pending_messages[i].deliver_round >= current_round

\* worker w has stored a round whose bucket holds no action
EmptyRoundStored(w) ==
    Stored(w) /\ get_scheduled_actions(action_schedule, workers[w].round) = <<>>

C10_NoSchedulingIntoThePast ==
    [][\A r \in 0..(current_round - 1) :
          Len(get_scheduled_actions(action_schedule', r))
              = Len(get_scheduled_actions(action_schedule, r))]_vars

\* C11: a round-processing worker is started only by a step taken while the
\* status is enriched or running; in every other status no step starts one.
C11_RoundsStartOnlyWhenEnrichedOrRunning ==
    [][\A w \in Workers :
          (workers[w].pc = "idle" /\ workers'[w].pc # "idle") =>
              status \in {"enriched", "running"}]_vars

\* C11 witness: a second round has been started, from the status running, in a
\* run that went through created, enriching and enriched
C11_Witness ==
    \E w \in Workers :
        /\ workers[w].pc = "gather"
        /\ workers[w].round = 1
        /\ status = "running"
        /\ generation = "done"

\* C12: whenever the status is completed, a stored RoundRecord has
\* continue_simulation = false, and the only step that sets the status to
\* completed is the end of a worker whose round reported
\* continue_simulation = false.
C12_CompletedOnlyByFinalRound ==
    /\ [](status = "completed" =>
             \E i \in 1..Len(rounds) : ~rounds[i].continue_simulation)
    /\ [][(status' = "completed" /\ status # "completed") =>
             \E w \in Workers :
                 /\ workers[w].pc = "stored"
                 /\ workers'[w].pc = "persisted"
                 /\ ~workers[w].round_data.continue_simulation]_vars

\* C12 witness: a run that reached the status completed
C12_Witness == status = "completed" /\ rounds # <<>>

\* C13: every step that changes the status follows an edge of the life cycle
\* created -> generating_actors -> enriching -> enriched -> running ->
\* completed, generating_actors -> failed, enriching -> failed, enriching ->
\* created.  The stored status of a simulation whose actors are being
\* generated is "created", so the edges that leave generating_actors are also
\* accepted as leaving created.
C13_StatusFollowsLifecycle ==
    [][status' # status =>
          <<status, status'>> \in
              {<<"created", "generating_actors">>, <<"generating_actors", "enriching">>,
               <<"enriching", "enriched">>, <<"enriched", "running">>,
               <<"running", "completed">>, <<"generating_actors", "failed">>,
               <<"enriching", "failed">>, <<"enriching", "created">>,
               <<"created", "enriching">>, <<"created", "failed">>}]_vars

\* C14: once round n is stored by a worker whose World Update reported a result
\* for every actor with a due action, every ScheduledAction of bucket n has
\* the status completed and the last RoundRecord is the one of round n.
C14_DueActionsCompleted ==
    \A w \in Workers :
        (Stored(w) /\ workers[w].world_update # <<>>) =>
            LET n == workers[w].round
                bucket == get_scheduled_actions(action_schedule, n)
                reported == {workers[w].world_update[1].action_results[i].actor_id :
                                i \in 1..Len(workers[w].world_update[1].action_results)}
            IN  (\A i \in 1..Len(bucket) : bucket[i].actor_id \in reported) =>
                    /\ \A i \in 1..Len(bucket) : bucket[i].status = "completed"
                    /\ rounds # <<>>
                    /\ rounds[Len(rounds)].round_number = n

\* C15: every step keeps every ScheduledAction of every bucket at its place,
\* with the same actor, action, round and duration, and keeps the status
\* completed of an action that has it.
C15_QueueIsAnAuditTrail ==
    [][\A r \in DOMAIN action_schedule :
          /\ r \in DOMAIN action_schedule'
          /\ Len(action_schedule'[r]) >= Len(action_schedule[r])
          /\ \A i \in 1..Len(action_schedule[r]) :
                i <= Len(action_schedule'[r]) =>
                    /\ Entry(action_schedule'[r][i]) = Entry(action_schedule[r][i])
                    /\ action_schedule'[r][i].actor_id = action_schedule[r][i].actor_id
                    /\ action_schedule[r][i].status = "completed" =>
                          action_schedule'[r][i].status = "completed"]_vars

\* an effect of processing round n is in the document: an action of bucket n is
\* completed, the tracker holds an ActiveAction started in round n, or the
\* messages sent for delivery in round n have left the mailbox
EffectVisible(n) ==
    \/ \E i \in 1..Len(get_scheduled_actions(action_schedule, n)) :
          get_scheduled_actions(action_schedule, n)[i].status = "completed"
    \/ \E i \in 1..Len(active_actions) : active_actions[i].started_round = n
    \/ /\ \E i \in 1..Len(sent_log) : sent_log[i].deliver_round = n
       /\ get_messages_for_round(pending_messages, n) = <<>>

\* C16: in every state a reader can see, a visible effect of round n comes
\* with RoundRecord n in rounds, the ActorStates of round n and a counter
\* greater than n.
C16_RoundEffectsAllOrNothing ==
    \A n \in 0..MaxRound :
        EffectVisible(n) =>
            /\ \E i \in 1..Len(rounds) : rounds[i].round_number = n
            /\ n \in DOMAIN actor_states
            /\ current_round > n

\* a worker between its first read of the simulation and its last write
InProgress(w) == workers[w].pc \notin {"idle", "persisted", "failed"}

\* C17: at most one round-processing worker is in progress.
C17_OneWorkerAtATime ==
    Cardinality({w \in Workers : InProgress(w)}) <= 1

\* C18: the step in which the decision of actor a raises leaves the action
\* queue and the mailbox as they are and moves the worker to the next actor
\* of the roster; a worker leaves the loop over the roster only after the last
\* actor, and then for the World Update step.
C18_FailedActorIsSkipped ==
    [][\A w \in Workers :
          /\ \A a \in workers'[w].raised \ workers[w].raised :
                /\ action_schedule' = action_schedule
                /\ pending_messages' = pending_messages
                /\ workers'[w].pc = "gather"
                /\ workers'[w].idx = workers[w].idx + 1
          /\ (workers[w].pc = "gather" /\ workers'[w].pc # "gather") =>
                /\ workers[w].idx > Len(workers[w].roster)
                /\ workers'[w].pc \in {"llm", "add_round"}]_vars

\* the decision of a1 raised, a2 was asked after it and its action is before
\* the World Update Provider
C18_Witness ==
    \E w \in Workers :
        /\ workers[w].pc = "llm"
        /\ workers[w].raised = {"a1"}
        /\ \E i \in 1..Len(workers[w].scheduled_actions) :
              /\ workers[w].scheduled_actions[i].actor_id = "a2"
              /\ workers[w].scheduled_actions[i].scheduled_at_round = workers[w].round

\* what GET /api/simulations/{id} returns: the stored document
Document ==
    <<status, current_round, rounds, actor_states, action_schedule,
      active_actions, pending_messages, actors>>

\* C19: the step in which a worker ends in Failed changes the document the
\* caller reads, so that the failed round differs for the caller from the
\* same round in progress.
C19_FailureIsSurfaced ==
    [][\A w \in Workers :
          (workers[w].pc # "failed" /\ workers'[w].pc = "failed") =>
              Document' # Document]_vars

\* C20: the step that ends an enrichment task sets the status enriched only
\* if every actor of the roster is enriched, and created otherwise; every
\* step keeps the enriched flag and the enrichment data of an enriched actor.
C20_EnrichmentKeepsEnrichedActors ==
    [][/\ \A e \in Enrichers :
             (enrichers[e].pc = "enrich" /\ enrichers'[e].pc = "idle") =>
                 /\ status' \in {"enriched", "created"}
                 /\ status' = "enriched" =>
                       \A i \in 1..Len(actors') : actors'[i].enriched
       /\ \A i \in 1..Len(actors) :
             actors[i].enriched =>
                 /\ i <= Len(actors')
                 /\ actors'[i].actor_id = actors[i].actor_id
                 /\ actors'[i].enriched
                 /\ actors'[i].memory = actors[i].memory]_vars

\* C21: at most one enrichment task runs at a time.
C21_OneEnrichmentAtATime ==
    Cardinality({e \in Enrichers : enrichers[e].pc = "enrich"}) <= 1

\* C22: active_actions never holds two entries with the same actor and the
\* same started_round.
C22_NoDuplicateActiveAction ==
    \A i, j \in 1..Len(active_actions) :
        (/\ active_actions[i].actor_id = active_actions[j].actor_id
         /\ active_actions[i].started_round = active_actions[j].started_round)
            => i = j

\* C23: the status update for an actor with no action in the bucket of the
\* round ends the worker with an error and leaves the queue as it is.
C23_StatusOfMissingActionFails ==
    [][\A w \in Workers :
          (/\ workers[w].pc = "status"
           /\ workers[w].ridx <= Len(workers[w].world_update[1].action_results)
           /\ workers'[w] # workers[w]
           /\ \A i \in 1..Len(get_scheduled_actions(action_schedule, workers[w].round)) :
                 get_scheduled_actions(action_schedule, workers[w].round)[i].actor_id
                    # workers[w].world_update[1].action_results[workers[w].ridx].actor_id)
              => /\ workers'[w].pc = "failed"
                 /\ action_schedule' = action_schedule]_vars

\* C24: every bucket of the queue holds at most one pending action per actor.
C24_OnePendingActionPerActor ==
    \A r \in DOMAIN action_schedule :
        \A i, j \in 1..Len(action_schedule[r]) :
            (/\ action_schedule[r][i].actor_id = action_schedule[r][j].actor_id
             /\ action_schedule[r][i].status = "pending"
             /\ action_schedule[r][j].status = "pending")
                => i = j

\* C25: the outcome of every my_actions entry stored for a round is an outcome
\* that the RoundRecord of that round holds as reported for the actor.
C25_OutcomeIsTheReportedOne ==
    \A r \in DOMAIN actor_states :
        \A a \in DOMAIN actor_states[r] :
            \A k \in 1..Len(actor_states[r][a].my_actions) :
                LET item == actor_states[r][a].my_actions[k]
                IN  \E i \in 1..Len(rounds) :
                        /\ rounds[i].round_number = item.scheduled_round
                        /\ \E j \in 1..Len(rounds[i].action_results) :
                              /\ rounds[i].action_results[j].actor_id = a
                              /\ rounds[i].action_results[j].outcome = item.outcome

\* C26: a message whose recipient is not an actor of the roster is stored
\* nowhere: the step that finds no recipient leaves the mailbox as it is and
\* moves on to the next actor, the mailbox holds only messages addressed to
\* actors of the roster, and every received message of an actor is a message
\* that was stored for that actor.
C26_UnknownRecipientDropped ==
    /\ [](\A i \in 1..Len(pending_messages) : pending_messages[i].to_actor_id \in ActorIds)
    /\ [](\A r \in DOMAIN actor_states : \A a \in DOMAIN actor_states[r] :
             \A k \in 1..Len(actor_states[r][a].messages_received) :
                \E j \in 1..Len(sent_log) :
                    /\ sent_log[j].to_actor_id = a
                    /\ Received(sent_log[j]) = actor_states[r][a].messages_received[k])
    /\ [][\A w \in Workers :
             workers'[w].unresolved \ workers[w].unresolved # {} =>
                 /\ pending_messages' = pending_messages
                 /\ workers'[w].pc = "gather"
                 /\ workers'[w].idx = workers[w].idx + 1]_vars

\* a1's message found no recipient, a2 was asked after it and the worker is
\* before the World Update Provider
C26_Witness ==
    \E w \in Workers :
        /\ workers[w].pc = "llm"
        /\ workers[w].unresolved = {"a1"}
        /\ workers[w].raised = {}

\* C27: a worker is before the World Update Provider only after the turn of
\* the last actor of the roster, with the whole bucket of its round as input,
\* which is not empty; it gets there from the loop over the roster only, so
\* once in an invocation.
C27_WorldUpdateAfterAllDecisions ==
    /\ [](\A w \in Workers :
             workers[w].pc = "llm" =>
                 /\ workers[w].idx > Len(workers[w].roster)
                 /\ workers[w].scheduled_actions # <<>>
                 /\ workers[w].scheduled_actions =
                       get_scheduled_actions(action_schedule, workers[w].round))
    /\ [][\A w \in Workers :
             (workers[w].pc # "llm" /\ workers'[w].pc = "llm") =>
                 workers[w].pc = "gather"]_vars

\* the provider's input holds an action that was scheduled for the round
\* while the round was gathered, next to one scheduled before
C27_Witness ==
    \E w \in Workers :
        /\ workers[w].pc = "llm"
        /\ workers[w].round = 1
        /\ \E i, j \in 1..Len(workers[w].scheduled_actions) :
              /\ workers[w].scheduled_actions[i].scheduled_at_round = 1
              /\ workers[w].scheduled_actions[j].scheduled_at_round = 0

C29_OnlyActorsWithoutDueAction ==
    [][\A w \in Workers :
          (/\ workers[w].pc = "gather"
           /\ workers[w].idx <= Len(workers[w].roster)
           /\ workers'[w] # workers[w])
              => \A i \in 1..Len(get_scheduled_actions(action_schedule, workers[w].round)) :
                    get_scheduled_actions(action_schedule, workers[w].round)[i].actor_id
                       # workers[w].roster[workers[w].idx]]_vars

\* C30: every worker that has started a round comes to Persisted or to Failed.
C30_InvocationEnds ==
    \A w \in Workers :
        (workers[w].pc \notin {"idle", "persisted", "failed"})
            ~> (workers[w].pc \in {"persisted", "failed"})

\* a worker is before the World Update Provider for the second round, after a
\* failed attempt
C30_Witness ==
    \E w \in Workers :
        workers[w].pc = "llm" /\ workers[w].round = 1 /\ workers[w].attempt = 1

\* C31: every actor_id that keys an ActorState of a stored round is the id of
\* an actor of the roster, and every actor_id of a result in a stored
\* RoundRecord is the id of an actor of the roster with an action in the bucket
\* of that round.
C31_StoredOutputNamesKnownActors ==
    /\ \A n \in DOMAIN actor_states :
          DOMAIN actor_states[n] \subseteq Range(RosterIds(actors))
    /\ \A i \in 1..Len(rounds) :
          \A j \in 1..Len(rounds[i].action_results) :
              /\ rounds[i].action_results[j].actor_id \in Range(RosterIds(actors))
              /\ \E k \in 1..Len(get_scheduled_actions(action_schedule, rounds[i].round_number)) :
                    get_scheduled_actions(action_schedule, rounds[i].round_number)[k].actor_id
                        = rounds[i].action_results[j].actor_id

\* C32: once round n is stored, an action of actor a that was due in round n
\* is in a's my_actions of round n as completed with outcome o exactly when
\* the bucket of round n holds it as completed with outcome o.
C32_HistoryAgreesWithQueue ==
    \A n \in 0..(current_round - 1) :
        \A i \in 1..Len(get_scheduled_actions(action_schedule, n)) :
            LET x == get_scheduled_actions(action_schedule, n)[i]
                my == MyActions(n, x.actor_id)
            IN  x.scheduled_at_round <= n =>
                    \A o \in Outcomes \cup {"UNKNOWN"} :
                        (\E k \in 1..Len(my) :
                            /\ my[k].scheduled_round = n
                            /\ my[k].action = x.action
                            /\ my[k].duration = x.duration
                            /\ my[k].status = "completed"
                            /\ my[k].outcome = o)
                        <=> (x.status = "completed" /\ x.outcome = o)

\* C33: every ScheduledAction of the queue has a duration of at least 1 and a
\* target round of at least 0.
C33_QueuedActionsWellFormed ==
    \A r \in DOMAIN action_schedule :
        \A i \in 1..Len(action_schedule[r]) :
            /\ action_schedule[r][i].duration >= 1
            /\ action_schedule[r][i].scheduled_round >= 0

\* C34: rounds has exactly current_round entries and its entry number i,
\* counted from 0, is the RoundRecord of round i.
C34_RoundsAreNumberedInOrder ==
    /\ Len(rounds) = current_round
    /\ \A i \in 1..Len(rounds) : rounds[i].round_number = i - 1

\* C35: no ScheduledAction in the bucket of a round below current_round has
\* the status pending.
C35_PastActionsAreResolved ==
    \A r \in DOMAIN action_schedule :
        r < current_round =>
            \A i \in 1..Len(action_schedule[r]) : action_schedule[r][i].status # "pending"

\* C36: whenever the status is enriched or running, the roster holds at least
\* one actor and every actor of the roster is enriched.
C36_EnrichedMeansEveryActorEnriched ==
    status \in {"enriched", "running"} =>
        /\ actors # <<>>
        /\ \A i \in 1..Len(actors) : actors[i].enriched

\* C37: a step taken while the status is completed leaves the status, the
\* rounds and current_round as they are.
C37_CompletedIsTerminal ==
    [][status = "completed" =>
          /\ status' = "completed"
          /\ rounds' = rounds
          /\ current_round' = current_round]_vars

\* worker w is at a step of a round whose bucket it finds or found empty: the
\* read of the bucket, add_round, or the test of continue_simulation
EmptyRoundStep(w) ==
    \/ /\ workers[w].pc = "gather"
       /\ workers[w].idx > Len(workers[w].roster)
       /\ get_scheduled_actions(action_schedule, workers[w].round) = <<>>
    \/ /\ workers[w].pc \in {"add_round", "stored"}
       /\ workers[w].world_update = <<>>

\* C38: every step of a worker on a round with zero due actions, from the read
\* of the empty bucket to the end of the worker, leaves the action queue,
\* active_actions, the mailbox and the status as they are; it changes at most
\* rounds, by appending the empty RoundRecord of the round, the actor states
\* of that round, and the counter, by one.
C38_EmptyRoundFrame ==
    [][\A w \in Workers :
          (EmptyRoundStep(w) /\ workers'[w] # workers[w]) =>
              /\ action_schedule' = action_schedule
              /\ active_actions' = active_actions
              /\ pending_messages' = pending_messages
              /\ status' = status
              /\ rounds' \in {rounds,
                               Append(rounds, [round_number |-> workers[w].round,
                                               action_results |-> <<>>,
                                               continue_simulation |-> TRUE])}
              /\ current_round' \in {current_round, current_round + 1}
              /\ current_round' = Len(rounds')
              /\ DOMAIN actor_states' \subseteq DOMAIN actor_states \cup {workers[w].round}
              /\ \A n \in DOMAIN actor_states \ {workers[w].round} :
                    n \in DOMAIN actor_states' /\ actor_states'[n] = actor_states[n]]_vars

\* round 1 had no due action and its worker has ended, while the mailbox holds
\* a message for delivery in round 1 and the queue holds the action of round 0
C38_Witness ==
    \E w \in Workers :
        /\ workers[w].pc = "persisted"
        /\ workers[w].world_update = <<>>
        /\ workers[w].round = 1
        /\ get_messages_for_round(pending_messages, 1) # <<>>
        /\ get_scheduled_actions(action_schedule, 0) # <<>>
        /\ current_round = 2

====
